---- MODULE Spec2Model ----
(***************************************************************************)
(* A model of IQTLabs/deps2repos: the co-occurrence graph pipeline of      *)
(* plot.py (form_graph, analyze, append_country_information,               *)
(* write_graph_results, run in that order by __main__) and the GitHub link *)
(* extraction of pypi.py (get_github_url_from_pypi_json).                  *)
(*                                                                         *)
(* Text is a sequence of tokens: a token is a run of characters that holds *)
(* no delimiter (",", "/", "//", ".", "_", white space), and a delimiter   *)
(* is a token of its own.  "P1,A,US\n" is <<"P1", ",", "A", ",", "US",     *)
(* "\n">>, the field "A" is <<"A">> and the empty string is <<>>.          *)
(* A number that the code computes in floating point (a percentage, a      *)
(* density, an average) is the exact fraction <<numerator, denominator>>.  *)
(***************************************************************************)
EXTENDS Integers, Sequences, FiniteSets, TLC

VARIABLES
    file,           \* the lines of the input csv file, the header first
    node_index,     \* args.node_index
    edge_index,     \* args.edge_index
    pc,             \* where __main__ of plot.py stands
    err,            \* the exception that ended the run, and the function that raised it
    G,              \* the graph form_graph returned
    page_ranks,     \* analyze's local page_ranks: the scores in graph node order
    results,        \* the results dictionary of analyze, enriched in place
    clock,          \* wall-clock time, in ticks
    outputs,        \* the files of ./results: path -> the contents written
    writeLog,       \* the calls of write_graph_results so far, oldest first
    pypi_pkg_json,  \* the argument of get_github_url_from_pypi_json
    github_page,    \* what get_github_url_from_pypi_json returned
    pypi_pc         \* "call" before the call, then "returned" or "raised"

vars == <<file, node_index, edge_index, pc, err, G, page_ranks, results,
          clock, outputs, writeLog, pypi_pkg_json, github_page, pypi_pc>>

plotVars == <<file, node_index, edge_index, pc, err, G, page_ranks, results>>
writeVars == <<clock, outputs, writeLog>>
pypiVars == <<pypi_pkg_json, github_page, pypi_pc>>

-----------------------------------------------------------------------------
(* Bounds of the model. *)

MaxLines == 3
MaxUrls == 2
MaxRuns == 3
MaxClock == 4
TicksPerSecond == 2

-----------------------------------------------------------------------------
(* Python values and string methods. *)

\* Python's None, where a text is expected.
None == <<"<None>">>

\* Python's None, where a dictionary of texts is expected.
NoneDict == <<None>>

\* No exception.
NoError == [exc |-> "", fn |-> ""]

Whitespace == {" ", "\n"}

Max(a, b) == IF a >= b THEN a ELSE b

\* s[i:] for a 1-based i.
From(s, i) == SubSeq(s, i, Len(s))

\* str.strip(): leading and trailing white space removed.
RECURSIVE LStrip(_)
LStrip(s) ==
    IF s # <<>> /\ Head(s) \in Whitespace THEN LStrip(Tail(s)) ELSE s

RECURSIVE RStrip(_)
RStrip(s) ==
    IF s # <<>> /\ s[Len(s)] \in Whitespace
    THEN RStrip(SubSeq(s, 1, Len(s) - 1))
    ELSE s

Strip(s) == RStrip(LStrip(s))

\* str.split(sep): the fields between the separators; always at least one field.
RECURSIVE SplitFrom(_, _, _)
SplitFrom(s, sep, field) ==
    IF s = <<>> THEN <<field>>
    ELSE IF Head(s) = sep THEN <<field>> \o SplitFrom(Tail(s), sep, <<>>)
    ELSE SplitFrom(Tail(s), sep, Append(field, Head(s)))

Split(s, sep) == SplitFrom(s, sep, <<>>)

\* str.split(): the runs of non-white-space; no empty token.
RECURSIVE SplitWhitespaceFrom(_, _)
SplitWhitespaceFrom(s, word) ==
    IF s = <<>> THEN (IF word = <<>> THEN <<>> ELSE <<word>>)
    ELSE IF Head(s) \in Whitespace
         THEN (IF word = <<>> THEN <<>> ELSE <<word>>)
              \o SplitWhitespaceFrom(Tail(s), <<>>)
    ELSE SplitWhitespaceFrom(Tail(s), Append(word, Head(s)))

SplitWhitespace(s) == SplitWhitespaceFrom(s, <<>>)

\* sep.join(fields)
RECURSIVE Join(_, _)
Join(fields, sep) ==
    IF fields = <<>> THEN <<>>
    ELSE IF Len(fields) = 1 THEN fields[1]
    ELSE fields[1] \o <<sep>> \o Join(Tail(fields), sep)

\* The index of the last occurrence of tok in s; 0 when there is none.
RECURSIVE LastIndexOf(_, _)
LastIndexOf(s, tok) ==
    IF s = <<>> THEN 0
    ELSE IF s[Len(s)] = tok THEN Len(s)
    ELSE LastIndexOf(SubSeq(s, 1, Len(s) - 1), tok)

\* The index of the first occurrence of tok in s; Len(s) + 1 when there is none.
RECURSIVE FirstIndexOf(_, _)
FirstIndexOf(s, tok) ==
    IF s = <<>> THEN 1
    ELSE IF Head(s) = tok THEN 1
    ELSE 1 + FirstIndexOf(Tail(s), tok)

\* The elements of a sequence, as a set.
Range(s) == {s[i] : i \in 1..Len(s)}

\* sum(f.values()) of a function to the naturals.
RECURSIVE SumOver(_, _)
SumOver(f, keys) ==
    IF keys = {} THEN 0
    ELSE LET k == CHOOSE x \in keys : TRUE
         IN  f[k] + SumOver(f, keys \ {k})

-----------------------------------------------------------------------------
(* The input files. *)

Groups == {"P1", "P2"}
NodeNames == {"A", "B", "C"}
Categories == {"US", "rank"}

Header == <<"project", ",", "contributor", ",", "country", "\n">>

\* A line "project,contributor,country\n".
FullLines ==
    {<<p, ",", n, ",", c, "\n">> : p \in Groups, n \in NodeNames, c \in Categories}

\* A line without the country, and a blank line.
ShortLines == {<<"P1", ",", "A", "\n">>, <<"\n">>}

Lines == FullLines \cup ShortLines

DataLines == UNION {[1..n -> Lines] : n \in 0..MaxLines}

\* A file that holds nothing, or a header and up to MaxLines data lines.
Files == {<<>>} \cup {<<Header>> \o d : d \in DataLines}

\* (node_index, edge_index): the defaults of the command line, and the two swapped.
IndexArgs == {<<1, 0>>, <<0, 1>>}

-----------------------------------------------------------------------------
(* form_graph: plot.py lines 14-57. *)

\* collections.defaultdict(list), in insertion order: keys and key -> list.
EmptyDict == [keys |-> <<>>, val |-> <<>>]

\* edges[key].append(node): a missing key is created with an empty list.
AppendTo(edges, key, node) ==
    IF key \in Range(edges.keys)
    THEN [edges EXCEPT !.val[key] = Append(@, node)]
    ELSE [keys |-> Append(edges.keys, key), val |-> (key :> <<node>>) @@ edges.val]

\* Lines 45-47, skipping a line that is too short instead of raising.
RECURSIVE CollectEdgesSkipping(_, _, _, _)
CollectEdgesSkipping(lines, ni, ei, edges) ==
    IF lines = <<>> THEN [exc |-> "", edges |-> edges]
    ELSE LET info == Split(Strip(Head(lines)), ",")
         IN  IF Len(info) <= ei \/ Len(info) <= ni
             THEN CollectEdgesSkipping(Tail(lines), ni, ei, edges)
             ELSE CollectEdgesSkipping(Tail(lines), ni, ei,
                                       AppendTo(edges, info[ei + 1], info[ni + 1]))

\* Lines 45-47: every data line is split on "," and its node is appended to the
\* list of its group; info[i] raises IndexError when the line has no field i.
RECURSIVE CollectEdges(_, _, _, _)
CollectEdges(lines, ni, ei, edges) ==
    IF lines = <<>> THEN [exc |-> "", edges |-> edges]
    ELSE LET info == Split(Strip(Head(lines)), ",")
         IN  IF Len(info) <= ei \/ Len(info) <= ni
             THEN [exc |-> "IndexError", edges |-> edges]
             ELSE CollectEdges(Tail(lines), ni, ei,
                               AppendTo(edges, info[ei + 1], info[ni + 1]))

\* itertools.combinations(s, 2): the pairs (s[i], s[j]) with i < j, by position.
RECURSIVE Combinations(_)
Combinations(s) ==
    IF Len(s) < 2 THEN <<>>
    ELSE [j \in 1..(Len(s) - 1) |-> <<s[1], s[j + 1]>>] \o Combinations(Tail(s))

\* nx.Graph(): the nodes in insertion order, and adj[u][v] = adj[v][u] = weight.
EmptyGraph == [node |-> <<>>, adj |-> <<>>]

AddNode(nodes, n) == IF n \in Range(nodes) THEN nodes ELSE Append(nodes, n)

\* G.has_edge(u, v)
HasEdge(g, u, v) == <<u, v>> \in DOMAIN g.adj

\* add_edge of a directed graph: only adj[u][v] is set.
AddEdgeDirected(g, u, v, w) ==
    [node |-> AddNode(AddNode(g.node, u), v),
     adj  |-> (<<u, v>> :> w) @@ g.adj]

\* G.add_edge(u, v, weight=w): both ends become nodes, both directions are set.
AddEdge(g, u, v, w) ==
    [node |-> AddNode(AddNode(g.node, u), v),
     adj  |-> (<<u, v>> :> w) @@ (<<v, u>> :> w) @@ g.adj]

\* G[u][v]["weight"] += 1: adj[u][v] and adj[v][u] are one attribute dictionary.
IncrementWeight(g, u, v) ==
    [g EXCEPT !.adj = [e \in DOMAIN @ |->
                          IF e \in {<<u, v>>, <<v, u>>} THEN @[e] + 1 ELSE @[e]]]

\* Lines 51-55: every pair raises the weight of its edge or adds the edge.
RECURSIVE AddCombinations(_, _)
AddCombinations(g, pairs) ==
    IF pairs = <<>> THEN g
    ELSE LET u == Head(pairs)[1]
             v == Head(pairs)[2]
         IN  AddCombinations(IF HasEdge(g, u, v)
                             THEN IncrementWeight(g, u, v)
                             ELSE AddEdge(g, u, v, 1),
                             Tail(pairs))

\* Lines 49-55: the groups in insertion order.
RECURSIVE AddGroups(_, _, _)
AddGroups(g, edges, keys) ==
    IF keys = <<>> THEN g
    ELSE AddGroups(AddCombinations(g, Combinations(edges.val[Head(keys)])),
                   edges, Tail(keys))

\* form_graph(input_file, node_index, edge_index): next(f) raises StopIteration
\* on a file without a header line.
form_graph(f, ni, ei) ==
    IF f = <<>> THEN [exc |-> "StopIteration", G |-> EmptyGraph]
    ELSE LET r == CollectEdges(Tail(f), ni, ei, EmptyDict)
         IN  IF r.exc # "" THEN [exc |-> r.exc, G |-> EmptyGraph]
             ELSE [exc |-> "", G |-> AddGroups(EmptyGraph, r.edges, r.edges.keys)]

-----------------------------------------------------------------------------
(* analyze: plot.py lines 60-107, with networkx 1.x (graph.node, and         *)
(* graph.degree() a dictionary).                                             *)

\* What networkx computes and the model leaves uninterpreted.
Opaque == "networkx"

\* The PageRank scores networkx may return, as fractions.
Scores == {<<1, 10>>, <<2, 10>>}

Nodes(g) == Range(g.node)

\* graph.degree(weight="weight")[n]: the weights of n's edges, a self-loop twice.
Degree(g, n) ==
    LET nbrs == {e \in DOMAIN g.adj : e[1] = n}
    IN  SumOver(g.adj, nbrs) + (IF <<n, n>> \in DOMAIN g.adj THEN g.adj[<<n, n>>] ELSE 0)

\* len(graph.edges()): an undirected edge once, a self-loop included.
EdgeNum(g) == Cardinality({{e[1], e[2]} : e \in DOMAIN g.adj})

\* nx.density(graph): 0 for m = 0 or n <= 1, else 2m / (n(n-1)); self-loops count.
Density(g) ==
    LET n == Len(g.node)
        m == EdgeNum(g)
    IN  IF m = 0 \/ n <= 1 THEN <<0, 1>> ELSE <<2 * m, n * (n - 1)>>

\* a >= b for fractions with positive denominators
FracGeq(a, b) == a[1] * b[2] >= b[1] * a[2]

\* sorted(items, reverse=True, key=score): descending, equal scores in the order
\* they came (Python's sort is stable, also reversed).
RECURSIVE InsertByScore(_, _)
InsertByScore(sorted, item) ==
    IF sorted = <<>> THEN <<item>>
    ELSE IF FracGeq(Head(sorted)[2], item[2])
         THEN <<Head(sorted)>> \o InsertByScore(Tail(sorted), item)
         ELSE <<item>> \o sorted

RECURSIVE SortedByScore(_)
SortedByScore(items) ==
    IF items = <<>> THEN <<>>
    ELSE InsertByScore(SortedByScore(SubSeq(items, 1, Len(items) - 1)),
                       items[Len(items)])

\* Lines 97-102: the dictionary rebuilt in sorted order.
SortedDict(items) ==
    LET s == SortedByScore(items)
    IN  [keys |-> [i \in 1..Len(s) |-> s[i][1]],
         val  |-> [n \in {s[i][1] : i \in 1..Len(s)} |->
                      (CHOOSE it \in Range(s) : it[1] = n)[2]]]

\* analyze(graph), pr being what nx.pagerank returns: items (node, score) in
\* graph node order.  On a graph without nodes average_clustering (line 84)
\* and line 88 divide by a length of 0.
analyze(g, pr) ==
    IF Len(g.node) = 0
    THEN [exc |-> "ZeroDivisionError", results |-> <<>>]
    ELSE [exc |-> "",
          results |->
            [assortativity      |-> Opaque,
             average_clustering |-> Opaque,
             avg_degree |-> <<SumOver([n \in Nodes(g) |-> Degree(g, n)], Nodes(g)),
                              Len(g.node)>>,
             density    |-> Density(g),
             edge_num   |-> EdgeNum(g),
             node_num   |-> Len(g.node),
             page_rank  |-> SortedDict(pr),
             hits       |-> Opaque]]

-----------------------------------------------------------------------------
(* append_country_information: plot.py lines 133-180. *)

\* The key "rank" of a node's record.
RankKey == <<"rank">>

\* dict.get(key, default) of a dictionary held as a function.
Get(d, key, default) == IF key \in DOMAIN d THEN d[key] ELSE default

\* Lines 153-162: per node, how often each location (the last field) occurs.
RECURSIVE CountLocations(_, _, _)
CountLocations(lines, ni, node_locations) ==
    IF lines = <<>> THEN [exc |-> "", node_locations |-> node_locations]
    ELSE LET info == Split(Strip(Head(lines)), ",")
             location == info[Len(info)]
         IN  IF Len(info) <= ni
             THEN [exc |-> "IndexError", node_locations |-> node_locations]
             ELSE LET node == info[ni + 1]
                      old == Get(node_locations, node, <<>>)
                      new == (location :> Get(old, location, 0) + 1) @@ old
                  IN  CountLocations(Tail(lines), ni, (node :> new) @@ node_locations)

\* Lines 165-169: the counts of a node as percentages of the node's total.
Percentages(locations) ==
    LET s == SumOver(locations, DOMAIN locations)
    IN  [key \in DOMAIN locations |-> <<locations[key] * 100, s>>]

\* Lines 174-177: {**{"rank": rank}, **locations}; the right operand wins a key
\* both hold.  (Line 178 writes to node_locations only, which is dropped.)
MergeRecord(rank, locations) == locations @@ (RankKey :> rank)

\* append_country_information(input_file, node_index, results): node_locations
\* is a defaultdict, so a node without a line gets the empty dictionary.
append_country_information(f, ni, res) ==
    IF f = <<>> THEN [exc |-> "StopIteration", results |-> res]
    ELSE LET r == CountLocations(Tail(f), ni, <<>>)
         IN  IF r.exc # "" THEN [exc |-> r.exc, results |-> res]
             ELSE [exc |-> "",
                   results |->
                     [res EXCEPT !.page_rank.val =
                         [node \in DOMAIN @ |->
                             MergeRecord(@[node],
                                         Percentages(Get(r.node_locations, node, <<>>)))]]]

-----------------------------------------------------------------------------
(* write_graph_results: plot.py lines 110-130. *)

\* time.strftime("%Y%m%d-%H%M%S"): the time cut to whole seconds, as text.
Strftime(t) == <<ToString(t \div TicksPerSecond)>>

\* os.path.basename(p): what follows the last "/".
Basename(p) == From(p, LastIndexOf(p, "/") + 1)

\* os.path.splitext(p)[0]: p up to its last ".", unless only dots precede it.
SplitextRoot(p) ==
    LET dot == LastIndexOf(p, ".")
    IN  IF dot > 0 /\ \E i \in 1..(dot - 1) : p[i] # "."
        THEN SubSeq(p, 1, dot - 1)
        ELSE p

\* Lines 121-127 without the timestamp in the name.
OutputPathUnstamped(filename, t) ==
    <<"results", "/">> \o SplitextRoot(Basename(filename)) \o <<".json">>

\* Lines 121-127: results/<basename without extension>_<timestamp>.json
OutputPath(filename, t) ==
    <<"results", "/">> \o SplitextRoot(Basename(filename))
        \o <<"_">> \o Strftime(t) \o <<".json">>

\* Lines 129-130: open(filename, "w") creates the file or replaces its contents.
WriteFile(files, path, contents) == (path :> contents) @@ files

\* write_graph_results(filename, results) at time t
write_graph_results(filename, res, t, files) ==
    WriteFile(files, OutputPath(filename, t), res)

\* One entry of the log of writes.
LogEntry(filename, t) ==
    [filename  |-> filename,
     basename  |-> SplitextRoot(Basename(filename)),
     timestamp |-> Strftime(t),
     path      |-> OutputPath(filename, t),
     existed   |-> OutputPath(filename, t) \in DOMAIN outputs]

-----------------------------------------------------------------------------
(* __main__ of plot.py, lines 213-222: one run of the pipeline. *)

\* args.filepath
Filepath == <<"data", "/", "gitgeo", ".", "csv">>

\* args.filename: absent, or given.
FilenameArgs == {None, <<"out">>}

\* No run of plot.py.
PlotIdle ==
    /\ file = <<>>
    /\ node_index = 1
    /\ edge_index = 0
    /\ pc = "idle"
    /\ err = NoError
    /\ G = EmptyGraph
    /\ page_ranks = <<>>
    /\ results = <<>>

\* An empty ./results at time 0.
WriteIdle ==
    /\ clock = 0
    /\ outputs = <<>>
    /\ writeLog = <<>>

\* No call of pypi.py.
PypiIdle ==
    /\ pypi_pkg_json = <<>>
    /\ github_page = <<>>
    /\ pypi_pc = "idle"

Init ==
    /\ file \in Files
    /\ \E a \in IndexArgs : node_index = a[1] /\ edge_index = a[2]
    /\ pc = "form_graph"
    /\ err = NoError
    /\ G = EmptyGraph
    /\ page_ranks = <<>>
    /\ results = <<>>
    /\ WriteIdle
    /\ PypiIdle

\* Line 216
FormGraph ==
    /\ pc = "form_graph"
    /\ LET r == form_graph(file, node_index, edge_index)
       IN  IF r.exc = ""
           THEN G' = r.G /\ pc' = "analyze" /\ err' = err
           ELSE G' = G /\ pc' = "error" /\ err' = [exc |-> r.exc, fn |-> "form_graph"]
    /\ UNCHANGED <<file, node_index, edge_index, page_ranks, results>>
    /\ UNCHANGED <<writeVars, pypiVars>>

\* Line 217.  nx.pagerank (line 94) gives every node of the graph a score.
Analyze ==
    /\ pc = "analyze"
    /\ \E score \in [Nodes(G) -> Scores] :
          LET pr == [i \in 1..Len(G.node) |-> <<G.node[i], score[G.node[i]]>>]
              r == analyze(G, pr)
          IN  IF r.exc = ""
              THEN /\ page_ranks' = pr
                   /\ results' = r.results
                   /\ pc' = "append_country_information"
                   /\ err' = err
              ELSE /\ page_ranks' = page_ranks
                   /\ results' = results
                   /\ pc' = "error"
                   /\ err' = [exc |-> r.exc, fn |-> "analyze"]
    /\ UNCHANGED <<file, node_index, edge_index, G>>
    /\ UNCHANGED <<writeVars, pypiVars>>

\* Lines 40 and 148: the file is opened and read twice, and nothing keeps
\* another process from cutting it short in between.
InputRewritten ==
    /\ pc = "append_country_information"
    /\ \E n \in 0..(Len(file) - 1) : file' = SubSeq(file, 1, n)
    /\ UNCHANGED <<node_index, edge_index, pc, err, G, page_ranks, results>>
    /\ UNCHANGED <<writeVars, pypiVars>>

\* Lines 218-220
AppendCountryInformation ==
    /\ pc = "append_country_information"
    /\ LET r == append_country_information(file, node_index, results)
       IN  IF r.exc = ""
           THEN results' = r.results /\ pc' = "write_graph_results" /\ err' = err
           ELSE /\ results' = results
                /\ pc' = "error"
                /\ err' = [exc |-> r.exc, fn |-> "append_country_information"]
    /\ UNCHANGED <<file, node_index, edge_index, G, page_ranks>>
    /\ UNCHANGED <<writeVars, pypiVars>>

\* Lines 221-222: filename = args.filename or args.filepath
WriteGraphResults ==
    /\ pc = "write_graph_results"
    /\ \E arg \in FilenameArgs :
          LET filename == IF arg \in {None, <<>>} THEN Filepath ELSE arg
          IN  /\ outputs' = write_graph_results(filename, results, clock, outputs)
              /\ writeLog' = Append(writeLog, LogEntry(filename, clock))
    /\ pc' = "exit"
    /\ UNCHANGED <<file, node_index, edge_index, err, G, page_ranks, results>>
    /\ UNCHANGED <<clock, pypiVars>>

Next ==
    \/ FormGraph
    \/ Analyze
    \/ InputRewritten
    \/ AppendCountryInformation
    \/ WriteGraphResults

Spec == Init /\ [][Next]_vars

-----------------------------------------------------------------------------
(* write_graph_results called again and again, as by one run after another. *)

\* The file names of the runs: args.filename, or args.filepath.
Filenames ==
    {Filepath, <<"gitgeo", ".", "csv">>, <<"gitgeo", ".", "txt">>, <<"out">>}

\* The spec's example file, and a second one.
ExampleFile ==
    <<Header, <<"P1", ",", "A", ",", "US", "\n">>,
              <<"P1", ",", "B", ",", "US", "\n">>,
              <<"P1", ",", "C", ",", "FR", "\n">>>>

OtherFile ==
    <<Header, <<"P1", ",", "A", ",", "US", "\n">>,
              <<"P1", ",", "B", ",", "FR", "\n">>>>

\* Lines 216-220 on a file, every node with the same score.
ResultsOf(f) ==
    LET g == form_graph(f, 1, 0).G
        pr == [i \in 1..Len(g.node) |-> <<g.node[i], <<1, 10>>>>]
    IN  append_country_information(f, 1, analyze(g, pr).results).results

SampleResults == {ResultsOf(ExampleFile), ResultsOf(OtherFile)}

InitWrite == PlotIdle /\ WriteIdle /\ PypiIdle

\* Time passes.
Tick ==
    /\ clock < MaxClock
    /\ clock' = clock + 1
    /\ UNCHANGED <<outputs, writeLog, plotVars, pypiVars>>

\* One more run reaches line 222.
RunWrite ==
    /\ Len(writeLog) < MaxRuns
    /\ \E filename \in Filenames, res \in SampleResults :
          /\ outputs' = write_graph_results(filename, res, clock, outputs)
          /\ writeLog' = Append(writeLog, LogEntry(filename, clock))
    /\ UNCHANGED <<clock, plotVars, pypiVars>>

NextWrite == Tick \/ RunWrite

SpecWrite == InitWrite /\ [][NextWrite]_vars

-----------------------------------------------------------------------------
(* get_github_url_from_pypi_json: pypi.py lines 35-84. *)

\* "github.com" in text
ContainsGithubCom(text) == "github.com" \in Range(text)

\* "github" in text
ContainsGithub(text) == Range(text) \cap {"github.com", "github.io"} # {}

\* [x for x in s if "github.com" in x]
RECURSIVE SelectGithubCom(_)
SelectGithubCom(s) ==
    IF s = <<>> THEN <<>>
    ELSE (IF ContainsGithubCom(Head(s)) THEN <<Head(s)>> ELSE <<>>)
         \o SelectGithubCom(Tail(s))

\* [x for x in s if "github" in x]
RECURSIVE SelectGithub(_)
SelectGithub(s) ==
    IF s = <<>> THEN <<>>
    ELSE (IF ContainsGithub(Head(s)) THEN <<Head(s)>> ELSE <<>>)
         \o SelectGithub(Tail(s))

Schemes == {"https:", "http:"}

\* urllib.parse.urlparse(url): a leading scheme is cut off; what follows "//"
\* up to the next "/" is the netloc, and the rest is the path.  Without "//"
\* there is no netloc and everything is path.
UrlParse(url) ==
    LET rest == IF url # <<>> /\ Head(url) \in Schemes THEN Tail(url) ELSE url
    IN  IF rest # <<>> /\ Head(rest) = "//"
        THEN LET cut == FirstIndexOf(Tail(rest), "/")
             IN  [netloc |-> SubSeq(Tail(rest), 1, cut - 1),
                  path   |-> From(Tail(rest), cut)]
        ELSE [netloc |-> <<>>, path |-> rest]

\* s[1:3] of a Python list
Slice1to3(s) == SubSeq(s, 2, IF Len(s) < 3 THEN Len(s) ELSE 3)

\* Lines 73-82
FormatGithubPage(field) ==
    LET page == UrlParse(field)
    IN  <<"https:", "//">> \o page.netloc \o <<"/">>
            \o Join(Slice1to3(Split(page.path, "/")), "/")

\* Lines 50-65: the fields that may hold the link, in the order they are tried.
PotentialGithubFields(info) ==
    LET home == IF ContainsGithubCom(info.home_page) THEN <<info.home_page>> ELSE <<>>
        urls == IF info.project_urls \notin {NoneDict, <<>>}
                THEN SelectGithubCom(info.project_urls)
                ELSE <<>>
        first == home \o urls
    IN  IF first = <<>> /\ info.description \notin {None, <<>>}
        THEN SelectGithubCom(SplitWhitespace(info.description))
        ELSE first

\* get_github_url_from_pypi_json(pypi_pkg_json): `"github.com" in None` (line 51)
\* raises TypeError.
get_github_url_from_pypi_json(json) ==
    IF json.info.home_page = None
    THEN [exc |-> "TypeError", github_page |-> <<>>]
    ELSE LET fields == SelectGithub(PotentialGithubFields(json.info))
         IN  [exc |-> "",
              github_page |-> IF fields = <<>> THEN <<>>
                              ELSE FormatGithubPage(fields[1])]

\* The PyPI data.
UrlRequests == <<"https:", "//", "github.com", "/", "psf", "/", "requests">>
UrlRequestsIssues == UrlRequests \o <<"/", "issues">>
UrlNetworkML == <<"http:", "//", "github.com", "/", "IQTLabs", "/", "NetworkML">>
UrlDocs == <<"https:", "//", "example.org", "/", "docs">>
UrlPages == <<"https:", "//", "psf", ".", "github.io", "/", "requests">>
UrlNoScheme == <<"github.com", "/", "psf", "/", "requests">>

HomePages == {None, <<>>, UrlRequests, UrlNoScheme, UrlDocs, UrlPages}

ProjectUrlValues == {UrlRequestsIssues, UrlNetworkML, UrlDocs}

ProjectUrls == {NoneDict} \cup UNION {[1..n -> ProjectUrlValues] : n \in 0..MaxUrls}

Descriptions ==
    {None,
     <<"plain", " ", "text", "\n">>,
     <<"docs", " ", "at", " ">> \o UrlRequestsIssues \o <<"\n">>,
     <<"see", " ">> \o UrlNoScheme \o <<" ">> \o UrlNetworkML}

InitPypi ==
    /\ PlotIdle
    /\ WriteIdle
    /\ pypi_pkg_json \in {[info |-> [home_page |-> h, project_urls |-> u, description |-> d]] :
                             h \in HomePages, u \in ProjectUrls, d \in Descriptions}
    /\ github_page = <<>>
    /\ pypi_pc = "call"

GetGithubUrl ==
    /\ pypi_pc = "call"
    /\ LET r == get_github_url_from_pypi_json(pypi_pkg_json)
       IN  /\ github_page' = r.github_page
           /\ pypi_pc' = IF r.exc = "" THEN "returned" ELSE "raised"
    /\ UNCHANGED <<pypi_pkg_json, plotVars, writeVars>>

NextPypi == GetGithubUrl

SpecPypi == InitPypi /\ [][NextPypi]_vars

-----------------------------------------------------------------------------
(* What the claims speak of, read off the input file and the state. *)

\* The fields of a line.
Fields(line) == Split(Strip(line), ",")

\* The positions of the data lines in the file.
DataPositions == 2..Len(file)

\* The values at edge_index, and the node values of the records of one group.
GroupValues == {Fields(file[i])[edge_index + 1] : i \in DataPositions}

Members(group) ==
    {Fields(file[i])[node_index + 1] :
        i \in {j \in DataPositions : Fields(file[j])[edge_index + 1] = group}}

NodeValues == {Fields(file[i])[node_index + 1] : i \in DataPositions}

\* The number of distinct groups whose records hold both a and b.
CoOccurrences(a, b) == Cardinality({k \in GroupValues : {a, b} \subseteq Members(k)})

\* The weight of the edge (a, b); 0 when there is no such edge.
Weight(g, a, b) == Get(g.adj, <<a, b>>, 0)

\* Some data line has fewer than k fields.
SomeLineShorterThan(k) == \E i \in DataPositions : Len(Fields(file[i])) < k

\* Every data line is project,contributor,country.
WellFormed == \A i \in DataPositions : Len(Fields(file[i])) = 3

\* analyze has returned its results.
HasResults == pc \in {"append_country_information", "write_graph_results", "exit"}

\* append_country_information has returned.
Enriched == pc \in {"write_graph_results", "exit"}

\* The score analyze computed for a node, and the node's place in the graph.
ScoreOf(node) == (CHOOSE it \in Range(page_ranks) : it[1] = node)[2]

PlaceOf(node) == CHOOSE i \in 1..Len(page_ranks) : page_ranks[i][1] = node

\* The lines of a node, and its share of each category as a percentage.
LinesOf(node) == {i \in DataPositions : Fields(file[i])[node_index + 1] = node}

CategoriesOf(node) ==
    {Fields(file[i])[Len(Fields(file[i]))] : i \in LinesOf(node)}

PercentageOf(node, category) ==
    <<100 * Cardinality({i \in LinesOf(node) :
                            Fields(file[i])[Len(Fields(file[i]))] = category}),
      Cardinality(LinesOf(node))>>

\* An undefined number.
NaN == <<0, 0>>

MetricNames ==
    {"assortativity", "average_clustering", "avg_degree", "density",
     "edge_num", "node_num", "page_rank", "hits"}

-----------------------------------------------------------------------------
(* The claims. *)

\* C1: after form_graph, for all distinct node identifiers a and b the weight
\* of edge (a, b) is the number of distinct groups whose records hold both, the
\* edge exists iff that number is at least 1, and repeating a record of the
\* file raises no weight.
C1_WeightIsGroupCount ==
    pc = "analyze" /\ WellFormed =>
        /\ \A a \in NodeValues, b \in NodeValues :
              a # b => /\ Weight(G, a, b) = CoOccurrences(a, b)
                       /\ HasEdge(G, a, b) <=> CoOccurrences(a, b) >= 1
        /\ \A i \in DataPositions :
              LET g == form_graph(Append(file, file[i]), node_index, edge_index).G
              IN  \A a \in NodeValues, b \in NodeValues :
                     a # b => Weight(g, a, b) = Weight(G, a, b)

\* C2: the graph form_graph returns has no edge from a node to itself, also when
\* a node value occurs twice in one group.
C2_NoSelfLoop ==
    pc = "analyze" /\ WellFormed => \A e \in DOMAIN G.adj : e[1] # e[2]

\* C3: the density analyze reports lies in [0, 1], and it is 1 only when every
\* two distinct nodes are joined by an edge.
C3_DensityInUnitInterval ==
    HasResults /\ WellFormed =>
        /\ 0 <= results.density[1]
        /\ results.density[1] <= results.density[2]
        /\ results.density[1] = results.density[2] =>
              \A a \in Nodes(G), b \in Nodes(G) : a # b => HasEdge(G, a, b)

C5_NeverOverwrites ==
    \A i \in 1..Len(writeLog), j \in 1..Len(writeLog) :
        i < j => writeLog[i].path # writeLog[j].path

\* C5 as amended: a run writes to a path that an earlier run wrote exactly when
\* an earlier run had the same base name (directory and extension trimmed) and
\* the same timestamp, which is cut to whole seconds.
C5_OverwritesOnlySameNameSameSecond ==
    \A j \in 1..Len(writeLog) :
        writeLog[j].existed <=>
            \E i \in 1..(j - 1) :
                /\ writeLog[i].basename = writeLog[j].basename
                /\ writeLog[i].timestamp = writeLog[j].timestamp

\* Three runs of one base name under different file names: the second within
\* the second of the first, replacing its file, the third a second later.
C5_Witness ==
    /\ Len(writeLog) = 3
    /\ writeLog[1].filename # writeLog[2].filename
    /\ writeLog[1].basename = writeLog[2].basename
    /\ writeLog[1].timestamp = writeLog[2].timestamp
    /\ writeLog[2].existed
    /\ writeLog[3].basename = writeLog[1].basename
    /\ writeLog[3].timestamp # writeLog[1].timestamp
    /\ ~writeLog[3].existed
    /\ Cardinality(DOMAIN outputs) = 2

\* C6: after append_country_information, results["page_rank"] has the node keys
\* of analyze's ranking, by descending score and, at equal score, in graph node
\* order; every node's record holds its rank and its category percentages and
\* nothing else, the record of a node without category data holding the rank only.
C6_EnrichedRanking ==
    Enriched /\ WellFormed =>
        LET ranking == results.page_rank
        IN  /\ Len(ranking.keys) = Len(page_ranks)
            /\ Range(ranking.keys) = {page_ranks[i][1] : i \in 1..Len(page_ranks)}
            /\ \A i \in 1..Len(ranking.keys), j \in 1..Len(ranking.keys) :
                  i < j =>
                      /\ FracGeq(ScoreOf(ranking.keys[i]), ScoreOf(ranking.keys[j]))
                      /\ ScoreOf(ranking.keys[i]) = ScoreOf(ranking.keys[j]) =>
                            PlaceOf(ranking.keys[i]) < PlaceOf(ranking.keys[j])
            /\ \A node \in Range(ranking.keys) :
                  /\ DOMAIN ranking.val[node] = {RankKey} \cup CategoriesOf(node)
                  /\ ranking.val[node][RankKey] = ScoreOf(node)
                  /\ \A c \in CategoriesOf(node) :
                        ranking.val[node][c] = PercentageOf(node, c)

\* C7: get_github_url_from_pypi_json returns "https://" host "/" owner "/" repo
\* of the first candidate (home_page, then the project_urls in order, then,
\* only if none of those matched, the description's tokens) that holds
\* "github.com", and the empty string when there is none.
C7_ProperGithubLink ==
    pypi_pc # "call" =>
        LET info == pypi_pkg_json.info
            urls == IF info.project_urls = NoneDict THEN <<>> ELSE info.project_urls
            words == IF info.description = None THEN <<>>
                     ELSE SplitWhitespace(info.description)
            first == (IF ContainsGithubCom(info.home_page)
                      THEN <<info.home_page>> ELSE <<>>)
                     \o SelectGithubCom(urls)
            candidates == IF first # <<>> THEN first ELSE SelectGithubCom(words)
            \* host, owner, repo, ...: the candidate without scheme and "//"
            parts == Split(From(candidates[1],
                                FirstIndexOf(candidates[1], "github.com")), "/")
        IN  /\ pypi_pc = "returned"
            /\ github_page =
                  IF candidates = <<>> THEN <<>>
                  ELSE <<"https:", "//">> \o Join(SubSeq(parts, 1, 3), "/")

\* C8: when a metric is undefined for the graph, as avg_degree is for a graph
\* without nodes, analyze still returns its results, with that metric reported
\* as undefined and the others reported; analyze does not abort the run.
C8_UndefinedMetricIsReported ==
    /\ pc = "error" => err.fn # "analyze"
    /\ HasResults =>
          /\ DOMAIN results = MetricNames
          /\ Len(G.node) = 0 => results.avg_degree = NaN

\* C9: form_graph returns the same node set, the same edge set and the same
\* weights for every order of the data lines, and the two orientations of a
\* pair are one edge with one weight.
C9_OrderIndependent ==
    pc = "analyze" =>
        /\ \A p \in Permutations(1..(Len(file) - 1)) :
              LET permuted == [i \in 1..(Len(file) - 1) |-> file[p[i] + 1]]
                  r == form_graph(<<Header>> \o permuted, node_index, edge_index)
              IN  /\ r.exc = ""
                  /\ Nodes(r.G) = Nodes(G)
                  /\ r.G.adj = G.adj
        /\ \A e \in DOMAIN G.adj :
              /\ <<e[2], e[1]>> \in DOMAIN G.adj
              /\ G.adj[<<e[2], e[1]>>] = G.adj[e]

\* A graph with an edge of weight 2, whose nodes come in another order when
\* the data lines are reversed.
C9_Witness ==
    /\ pc = "analyze"
    /\ Len(file) = 4
    /\ \E e \in DOMAIN G.adj : e[1] # e[2] /\ G.adj[e] = 2
    /\ LET reversed == <<Header, file[4], file[3], file[2]>>
       IN  form_graph(reversed, node_index, edge_index).G.node # G.node

\* C10: after append_country_information the "rank" field of every node's
\* record is the score analyze computed for the node, whatever the categories.
C10_RankIsScore ==
    Enriched /\ WellFormed =>
        \A node \in Range(results.page_rank.keys) :
            results.page_rank.val[node][RankKey] = ScoreOf(node)

====
